---- MODULE Spec2Model ----
(***************************************************************************)
(* Huffman codec of huff.py: class Node, class HuffmanCoding (frequency    *)
(* count, heapq-driven tree merge, code derivation, bit packing with a     *)
(* padding header, decoding) and the two worker threads of HuffmanGUI.     *)
(*                                                                         *)
(* Python values are modelled as follows.  A str of text is a sequence of  *)
(* symbols; a str of '0'/'1' characters is a sequence over {0,1}; bytes is *)
(* a sequence over 0..255; a dict is a function whose DOMAIN is its key    *)
(* set (Counter, whose iteration order matters, is a sequence of           *)
(* <<key, count>> pairs in insertion order); a Node object is a record.    *)
(* None is the record None where a Node or a record of locals is expected, *)
(* NoText where a str is expected and NoBytes where bytes are expected     *)
(* (one-element sequences whose element no str and no bytes holds).  A     *)
(* raised exception is the name of its class in an err field.              *)
(***************************************************************************)
EXTENDS Integers, Sequences, FiniteSets, TLC

VARIABLES
    text,             \* argument of the current compress call
    codes,            \* HuffmanCoding.codes
    reverse_mapping,  \* HuffmanCoding.reverse_mapping
    heap,             \* local list heap of compress / merge_nodes
    merges,           \* iterations of the merge_nodes loop run so far
    root,             \* tree returned by compress
    buffer,           \* bytes returned by compress, or the bytes handed to decompress
    decoded,          \* str returned by decompress
    err,              \* exception raised by the last call, "None" when it returned
    pc,               \* position of the codec's caller
    multi,            \* every compress call on this codec object had >= 2 distinct symbols
    tree,             \* HuffmanGUI.tree
    compressed_data,  \* HuffmanGUI.compressed_data
    original_text,    \* HuffmanGUI.original_text
    cpc,              \* position of the thread running compress_text
    c_local,          \* its locals: text, root, compressed_data
    dpc,              \* position of the thread running decompress_text
    decompressed,     \* its local decompressed
    data_src,         \* the text whose compress call produced compressed_data
    d_src             \* the text whose compress call produced the bytes last decoded

codec == <<codes, reverse_mapping>>
call == <<text, heap, merges, root, buffer, decoded, err, pc, multi>>
gui == <<tree, compressed_data, original_text, cpc, c_local, dpc, decompressed,
         data_src, d_src>>
vars == <<codec, call, gui>>

\* ------------------------------------------------------------------ bounds
Symbols == {"a", "b", "c", "d"}   \* alphabet of the texts compressed on a fresh codec
SessionSymbols == {"a", "b", "c"} \* alphabet of the texts of a reused codec and of the GUI
MaxLen == 5          \* longest text compressed on a fresh codec
MaxHeader == 10      \* largest value a tampered header byte takes
MaxSessionLen == 3   \* longest text compressed on a reused codec
MaxGuiLen == 2       \* longest text entered in the GUI

ByteBits == 8

None == [none |-> TRUE]
NoChar == "None"
NoText == <<NoChar>>
NoBytes == <<-1>>
NoErr == "None"

Inputs(alphabet, n) == UNION {[1..k -> alphabet] : k \in 0..n}

Range(s) == {s[i] : i \in 1..Len(s)}

\* ------------------------------------------------------------- class Node
Node(char, freq) == [char |-> char, freq |-> freq, left |-> None, right |-> None]

\* Mutant of Lt: the comparison reversed, which makes heapq a max-heap.
LtReversed(self, other) == self.freq > other.freq

Lt(self, other) == self.freq < other.freq

\* ------------------------------------------------------------------ heapq
\* Positions are 0-based as in heapq; h[pos + 1] is Python's heap[pos].
RECURSIVE SiftDownLoop(_, _, _, _)
SiftDownLoop(h, startpos, pos, newitem) ==
    IF pos > startpos
    THEN LET parentpos == (pos - 1) \div 2
             parent == h[parentpos + 1]
         IN  IF Lt(newitem, parent)
             THEN SiftDownLoop([h EXCEPT ![pos + 1] = parent], startpos, parentpos, newitem)
             ELSE [h EXCEPT ![pos + 1] = newitem]
    ELSE [h EXCEPT ![pos + 1] = newitem]

SiftDown(h, startpos, pos) == SiftDownLoop(h, startpos, pos, h[pos + 1])

RECURSIVE SiftUpLoop(_, _, _, _)
SiftUpLoop(h, startpos, pos, newitem) ==
    LET endpos == Len(h)
        leftpos == 2 * pos + 1
        rightpos == leftpos + 1
        childpos == IF rightpos < endpos /\ ~Lt(h[leftpos + 1], h[rightpos + 1])
                    THEN rightpos ELSE leftpos
    IN  IF leftpos < endpos
        THEN SiftUpLoop([h EXCEPT ![pos + 1] = h[childpos + 1]], startpos, childpos, newitem)
        ELSE SiftDown([h EXCEPT ![pos + 1] = newitem], startpos, pos)

SiftUp(h, pos) == SiftUpLoop(h, pos, pos, h[pos + 1])

RECURSIVE HeapifyFrom(_, _)
HeapifyFrom(x, i) == IF i < 0 THEN x ELSE HeapifyFrom(SiftUp(x, i), i - 1)

Heapify(x) == HeapifyFrom(x, (Len(x) \div 2) - 1)

\* heappop on a non-empty list: the item returned and the list left.
HeapPop(h) ==
    LET lastelt == h[Len(h)]
        rest == SubSeq(h, 1, Len(h) - 1)
    IN  IF rest # <<>>
        THEN [item |-> rest[1], heap |-> SiftUp([rest EXCEPT ![1] = lastelt], 0)]
        ELSE [item |-> lastelt, heap |-> rest]

HeapPush(h, item) == SiftDown(Append(h, item), 0, Len(h))

\* ---------------------------------------------------- class HuffmanCoding
RECURSIVE CounterUpdate(_, _)
CounterUpdate(freq, txt) ==
    IF txt = <<>> THEN freq
    ELSE LET c == Head(txt)
             at == {i \in 1..Len(freq) : freq[i][1] = c}
         IN  IF at = {}
             THEN CounterUpdate(Append(freq, <<c, 1>>), Tail(txt))
             ELSE CounterUpdate([i \in 1..Len(freq) |->
                                    IF i \in at THEN <<c, freq[i][2] + 1>> ELSE freq[i]],
                                Tail(txt))

BuildFrequencyDict(txt) == CounterUpdate(<<>>, txt)

BuildHeap(frequency) ==
    Heapify([i \in 1..Len(frequency) |-> Node(frequency[i][1], frequency[i][2])])

\* One iteration of the while loop of merge_nodes.
MergeStep(h) ==
    LET p1 == HeapPop(h)
        p2 == HeapPop(p1.heap)
        merged == [char |-> NoChar, freq |-> p1.item.freq + p2.item.freq,
                   left |-> p1.item, right |-> p2.item]
    IN  HeapPush(p2.heap, merged)

RECURSIVE MergeLoop(_)
MergeLoop(h) == IF Len(h) > 1 THEN MergeLoop(MergeStep(h)) ELSE h

Put(d, k, v) == [x \in DOMAIN d \cup {k} |-> IF x = k THEN v ELSE d[x]]

\* Mutant of BuildCodesHelper: a symbol that already has a code keeps it.
RECURSIVE BuildCodesHelperKeep(_, _, _)
BuildCodesHelperKeep(node, current_code, tabs) ==
    IF node = None THEN tabs
    ELSE LET here == IF node.char # NoChar /\ node.char \notin DOMAIN tabs.codes
                     THEN [codes |-> Put(tabs.codes, node.char, current_code),
                           reverse_mapping |->
                               Put(tabs.reverse_mapping, current_code, node.char)]
                     ELSE tabs
             lhs == BuildCodesHelperKeep(node.left, Append(current_code, 0), here)
         IN  BuildCodesHelperKeep(node.right, Append(current_code, 1), lhs)

RECURSIVE BuildCodesHelper(_, _, _)
BuildCodesHelper(node, current_code, tabs) ==
    IF node = None THEN tabs
    ELSE LET here == IF node.char # NoChar
                     THEN [codes |-> Put(tabs.codes, node.char, current_code),
                           reverse_mapping |->
                               Put(tabs.reverse_mapping, current_code, node.char)]
                     ELSE tabs
             lhs == BuildCodesHelper(node.left, Append(current_code, 0), here)
         IN  BuildCodesHelper(node.right, Append(current_code, 1), lhs)

BuildCodes(node, cds, rm) ==
    BuildCodesHelper(node, <<>>, [codes |-> cds, reverse_mapping |-> rm])

RECURSIVE GetEncodedText(_, _)
GetEncodedText(txt, cds) ==
    IF txt = <<>> THEN <<>> ELSE cds[Head(txt)] \o GetEncodedText(Tail(txt), cds)

\* Binary digits of n, most significant first, as bin(n)[2:] and format(n, 'b').
RECURSIVE Bin(_)
Bin(n) == IF n < 2 THEN <<n>> ELSE Append(Bin(n \div 2), n % 2)

RJust(s, width, fill) ==
    IF Len(s) >= width THEN s ELSE [i \in 1..(width - Len(s)) |-> fill] \o s

\* Mutant of PadEncodedText: no padding when the length is a multiple of 8.
PadEncodedTextMod8(encoded_text) ==
    LET extra_padding == (ByteBits - (Len(encoded_text) % ByteBits)) % ByteBits
        padded_info == RJust(Bin(extra_padding), ByteBits, 0)
    IN  padded_info \o encoded_text \o [i \in 1..extra_padding |-> 0]

PadEncodedText(encoded_text) ==
    LET extra_padding == ByteBits - (Len(encoded_text) % ByteBits)
        padded_info == RJust(Bin(extra_padding), ByteBits, 0)
    IN  padded_info \o encoded_text \o [i \in 1..extra_padding |-> 0]

\* int(s, 2) of a non-empty digit string.
RECURSIVE IntBase2(_)
IntBase2(s) ==
    IF s = <<>> THEN 0 ELSE 2 * IntBase2(SubSeq(s, 1, Len(s) - 1)) + s[Len(s)]

\* s[lo:hi] for 0 <= lo, 0 <= hi.
Slice(s, lo, hi) ==
    LET a == IF lo > Len(s) THEN Len(s) ELSE lo
        b == IF hi > Len(s) THEN Len(s) ELSE hi
    IN  IF b <= a THEN <<>> ELSE SubSeq(s, a + 1, b)

\* The loop of compress packing padded_text into bytes.
RECURSIVE PackBytes(_)
PackBytes(padded_text) ==
    IF padded_text = <<>> THEN <<>>
    ELSE <<IntBase2(Slice(padded_text, 0, ByteBits))>>
             \o PackBytes(Slice(padded_text, ByteBits, Len(padded_text)))

\* compress, lines 68-76; self.codes[char] raises KeyError on a missing key.
EncodeAndPack(txt, cds) ==
    IF \E i \in 1..Len(txt) : txt[i] \notin DOMAIN cds
    THEN [err |-> "KeyError", buffer |-> NoBytes]
    ELSE [err |-> NoErr, buffer |-> PackBytes(PadEncodedText(GetEncodedText(txt, cds)))]

\* compress from the statement after merge_nodes returned root.
FinishCompress(node, txt, cds, rm) ==
    LET tabs == BuildCodes(node, cds, rm)
        packed == EncodeAndPack(txt, tabs.codes)
    IN  [err |-> packed.err, codes |-> tabs.codes,
         reverse_mapping |-> tabs.reverse_mapping, buffer |-> packed.buffer,
         root |-> IF packed.err = NoErr THEN node ELSE None]

\* A whole compress call on a codec whose tables are cds and rm.
Compress(txt, cds, rm) ==
    LET h == MergeLoop(BuildHeap(BuildFrequencyDict(txt)))
    IN  IF h = <<>>
        THEN [err |-> "IndexError", codes |-> cds, reverse_mapping |-> rm,
              buffer |-> NoBytes, root |-> None]
        ELSE FinishCompress(h[1], txt, cds, rm)

\* s[8:-extra_padding]; -0 is 0, and a negative stop counts from the end.
RemovePadding(padded_encoded_text) ==
    LET padded_info == Slice(padded_encoded_text, 0, ByteBits)
        extra_padding == IntBase2(padded_info)
        n == Len(padded_encoded_text)
        stop == IF extra_padding = 0 THEN 0
                ELSE IF n - extra_padding < 0 THEN 0 ELSE n - extra_padding
    IN  Slice(padded_encoded_text, ByteBits, stop)

\* The for loop of decode_text: the text decoded and the candidate code left.
RECURSIVE DecodeLoop(_, _, _, _)
DecodeLoop(encoded_text, current_code, decoded_text, rm) ==
    IF encoded_text = <<>>
    THEN [decoded_text |-> decoded_text, current_code |-> current_code]
    ELSE LET cand == Append(current_code, Head(encoded_text))
         IN  IF cand \in DOMAIN rm
             THEN DecodeLoop(Tail(encoded_text), <<>>, Append(decoded_text, rm[cand]), rm)
             ELSE DecodeLoop(Tail(encoded_text), cand, decoded_text, rm)

DecodeText(encoded_text, rm) == DecodeLoop(encoded_text, <<>>, <<>>, rm).decoded_text

RECURSIVE BitString(_)
BitString(data) ==
    IF data = <<>> THEN <<>>
    ELSE RJust(Bin(Head(data)), ByteBits, 0) \o BitString(Tail(data))

\* A whole decompress call; int('', 2) of an empty buffer raises ValueError.
Decompress(data, rm) ==
    IF data = <<>>
    THEN [err |-> "ValueError", text |-> NoText]
    ELSE [err |-> NoErr, text |-> DecodeText(RemovePadding(BitString(data)), rm)]

DistinctSymbols(txt) == Cardinality(Range(txt))

\* HuffmanCoding.__init__ and the caller's variables before any call.
NewCodec ==
    /\ codes = <<>>
    /\ reverse_mapping = <<>>

NoCall ==
    /\ heap = <<>>
    /\ merges = 0
    /\ root = None
    /\ buffer = NoBytes
    /\ decoded = NoText
    /\ err = NoErr
    /\ multi = TRUE

\* HuffmanGUI.__init__, lines 107-110, with no worker thread started.
NewGui ==
    /\ tree = None
    /\ compressed_data = NoBytes
    /\ original_text = <<>>
    /\ cpc = "idle"
    /\ c_local = None
    /\ dpc = "idle"
    /\ decompressed = NoText
    /\ data_src = NoText
    /\ d_src = NoText

\* ------------------------------------------------- one call on a new codec
Init ==
    /\ text \in Inputs(Symbols, MaxLen)
    /\ NewCodec
    /\ NoCall
    /\ pc = "compress"
    /\ NewGui

\* compress, lines 63-64.
StartCompress ==
    /\ pc = "compress"
    /\ heap' = BuildHeap(BuildFrequencyDict(text))
    /\ pc' = "merge"
    /\ UNCHANGED <<text, codec, merges, root, buffer, decoded, err, multi, gui>>

\* merge_nodes, one iteration of the loop.
MergeIteration ==
    /\ pc = "merge"
    /\ Len(heap) > 1
    /\ heap' = MergeStep(heap)
    /\ merges' = merges + 1
    /\ UNCHANGED <<text, codec, root, buffer, decoded, err, pc, multi, gui>>

\* merge_nodes, return heap[0], and the rest of compress.
ReturnCompress ==
    /\ pc = "merge"
    /\ Len(heap) <= 1
    /\ IF heap = <<>>
       THEN /\ err' = "IndexError"
            /\ pc' = "failed"
            /\ UNCHANGED <<codec, root, buffer>>
       ELSE LET r == FinishCompress(heap[1], text, codes, reverse_mapping)
            IN  /\ err' = r.err
                /\ codes' = r.codes
                /\ reverse_mapping' = r.reverse_mapping
                /\ buffer' = r.buffer
                /\ root' = r.root
                /\ pc' = IF r.err = NoErr THEN "compressed" ELSE "failed"
    /\ UNCHANGED <<text, heap, merges, decoded, multi, gui>>

\* The caller hands decompress the buffer with another header byte.
TamperHeader ==
    /\ pc = "compressed"
    /\ \E h \in 0..MaxHeader :
          /\ h # buffer[1]
          /\ buffer' = [buffer EXCEPT ![1] = h]
    /\ pc' = "tampered"
    /\ UNCHANGED <<text, codec, heap, merges, root, decoded, err, multi, gui>>

\* The caller hands decompress the buffer cut short by k bytes.
Truncate ==
    /\ pc = "compressed"
    /\ \E k \in 1..Len(buffer) : buffer' = SubSeq(buffer, 1, Len(buffer) - k)
    /\ pc' = "tampered"
    /\ UNCHANGED <<text, codec, heap, merges, root, decoded, err, multi, gui>>

\* decompress of the bytes the caller holds.
DoDecompress ==
    /\ pc \in {"compressed", "tampered"}
    /\ LET r == Decompress(buffer, reverse_mapping)
       IN  /\ err' = r.err
           /\ decoded' = r.text
    /\ pc' = IF pc = "compressed" THEN "done" ELSE "done_tampered"
    /\ UNCHANGED <<text, codec, heap, merges, root, buffer, multi, gui>>

Next ==
    \/ StartCompress
    \/ MergeIteration
    \/ ReturnCompress
    \/ TamperHeader
    \/ Truncate
    \/ DoDecompress

Spec == Init /\ [][Next]_vars

\* ------------------------------------------- many calls on one codec object
SessionInit ==
    /\ text = <<>>
    /\ NewCodec
    /\ NoCall
    /\ pc = "new"
    /\ NewGui

\* codec = HuffmanCoding()
Construct ==
    /\ pc = "idle"
    /\ codes' = <<>>
    /\ reverse_mapping' = <<>>
    /\ multi' = TRUE
    /\ pc' = "new"
    /\ UNCHANGED <<text, heap, merges, root, buffer, decoded, err, gui>>

\* buffer, root = codec.compress(t)
CompressCall ==
    /\ pc \in {"new", "idle"}
    /\ \E t \in Inputs(SessionSymbols, MaxSessionLen) :
          \E r \in {Compress(t, codes, reverse_mapping)} :
              /\ text' = t
              /\ codes' = r.codes
              /\ reverse_mapping' = r.reverse_mapping
              /\ buffer' = r.buffer
              /\ root' = r.root
              /\ err' = r.err
              /\ multi' = (multi /\ DistinctSymbols(t) >= 2)
              /\ pc' = IF r.err = NoErr THEN "compressed" ELSE "failed"
    /\ UNCHANGED <<heap, merges, decoded, gui>>

\* buffer, root = codec.compress(text) once more, with the same text
CompressAgain ==
    /\ pc \in {"compressed", "recompressed", "done"}
    /\ \E r \in {Compress(text, codes, reverse_mapping)} :
          /\ codes' = r.codes
          /\ reverse_mapping' = r.reverse_mapping
          /\ buffer' = r.buffer
          /\ root' = r.root
          /\ err' = r.err
          /\ pc' = IF r.err = NoErr THEN "recompressed" ELSE "failed"
    /\ decoded' = NoText
    /\ UNCHANGED <<text, heap, merges, multi, gui>>

\* codec.decompress(buffer) of the buffer the last compress call returned
DecompressCall ==
    /\ pc \in {"compressed", "recompressed"}
    /\ \E r \in {Decompress(buffer, reverse_mapping)} :
          /\ err' = r.err
          /\ decoded' = r.text
    /\ pc' = "done"
    /\ UNCHANGED <<text, codec, heap, merges, root, buffer, multi, gui>>

\* The caller drops what the last calls returned; the codec object stays.
Release ==
    /\ pc \in {"compressed", "recompressed", "failed", "done"}
    /\ text' = <<>>
    /\ root' = None
    /\ buffer' = NoBytes
    /\ decoded' = NoText
    /\ err' = NoErr
    /\ pc' = "idle"
    /\ UNCHANGED <<codec, heap, merges, multi, gui>>

SessionNext ==
    \/ Construct
    \/ CompressCall
    \/ CompressAgain
    \/ DecompressCall
    \/ Release

SpecSession == SessionInit /\ [][SessionNext]_vars

\* ------------------------------------------ the worker threads of HuffmanGUI
\* One thread runs compress_text and one runs decompress_text at a time; a
\* thread switch is taken between the statements below (CPython may switch
\* between any two bytecodes, so every interleaving here is one it can run).
\* The text entered has no white space, so strip() returns it unchanged.
GuiInit ==
    /\ text = <<>>
    /\ NewCodec
    /\ NoCall
    /\ pc = "gui"
    /\ NewGui

\* threaded_compress; compress_text, lines 137-141.
CompressTextStart ==
    /\ cpc = "idle"
    /\ \E t \in Inputs(SessionSymbols, MaxGuiLen) :
          IF t = <<>>
          THEN UNCHANGED <<original_text, c_local, cpc>>
          ELSE /\ original_text' = t
               /\ c_local' = [text |-> t, root |-> None, data |-> NoBytes]
               /\ cpc' = "build"
    /\ UNCHANGED <<codec, call, tree, compressed_data, dpc, decompressed, data_src, d_src>>

\* compress_text, line 142: compress, lines 63-66.
CompressTextBuild ==
    /\ cpc = "build"
    /\ \E h \in {MergeLoop(BuildHeap(BuildFrequencyDict(c_local.text)))} :
          \E tabs \in {BuildCodes(h[1], codes, reverse_mapping)} :
              /\ codes' = tabs.codes
              /\ reverse_mapping' = tabs.reverse_mapping
              /\ c_local' = [c_local EXCEPT !.root = h[1]]
    /\ cpc' = "encode"
    /\ UNCHANGED <<call, tree, compressed_data, original_text, dpc, decompressed,
                   data_src, d_src>>

\* compress_text, line 142: compress, lines 68-76; an exception ends the thread.
CompressTextEncode ==
    /\ cpc = "encode"
    /\ \E packed \in {EncodeAndPack(c_local.text, codes)} :
          IF packed.err = NoErr
          THEN /\ c_local' = [c_local EXCEPT !.data = packed.buffer]
               /\ cpc' = "store_tree"
          ELSE /\ c_local' = None
               /\ cpc' = "idle"
    /\ UNCHANGED <<codec, call, tree, compressed_data, original_text, dpc, decompressed,
                   data_src, d_src>>

\* compress_text, line 142: the assignment to self.tree.
CompressTextStoreTree ==
    /\ cpc = "store_tree"
    /\ tree' = c_local.root
    /\ cpc' = "store_data"
    /\ UNCHANGED <<codec, call, compressed_data, original_text, c_local, dpc,
                   decompressed, data_src, d_src>>

\* compress_text, line 143; lines 145-152 only write to the output widget.
CompressTextStoreData ==
    /\ cpc = "store_data"
    /\ compressed_data' = c_local.data
    /\ data_src' = c_local.text
    /\ c_local' = None
    /\ cpc' = "idle"
    /\ UNCHANGED <<codec, call, tree, original_text, dpc, decompressed, d_src>>

\* threaded_decompress; decompress_text, lines 155-157.
DecompressTextCheck ==
    /\ dpc = "idle"
    /\ IF compressed_data = NoBytes \/ tree = None
       THEN UNCHANGED <<dpc, decompressed, d_src>>
       ELSE /\ dpc' = "build"
            /\ decompressed' = NoText
            /\ d_src' = NoText
    /\ UNCHANGED <<codec, call, tree, compressed_data, original_text, cpc, c_local,
                   data_src>>

\* decompress_text, line 159.
DecompressTextBuild ==
    /\ dpc = "build"
    /\ \E tabs \in {BuildCodes(tree, codes, reverse_mapping)} :
          /\ codes' = tabs.codes
          /\ reverse_mapping' = tabs.reverse_mapping
    /\ dpc' = "decode"
    /\ UNCHANGED <<call, tree, compressed_data, original_text, cpc, c_local, decompressed,
                   data_src, d_src>>

\* decompress_text, line 160; lines 162-164 only write to the output widget.
DecompressTextDecode ==
    /\ dpc = "decode"
    /\ \E r \in {Decompress(compressed_data, reverse_mapping)} :
          /\ decompressed' = r.text
          /\ d_src' = IF r.err = NoErr THEN data_src ELSE NoText
    /\ dpc' = "idle"
    /\ UNCHANGED <<codec, call, tree, compressed_data, original_text, cpc, c_local,
                   data_src>>

GuiNext ==
    \/ CompressTextStart
    \/ CompressTextBuild
    \/ CompressTextEncode
    \/ CompressTextStoreTree
    \/ CompressTextStoreData
    \/ DecompressTextCheck
    \/ DecompressTextBuild
    \/ DecompressTextDecode

SpecGUI == GuiInit /\ [][GuiNext]_vars

\* ------------------------------------------------------------- properties
Count(txt, c) == Cardinality({i \in 1..Len(txt) : txt[i] = c})

RECURSIVE SumCodeLen(_, _)
SumCodeLen(txt, cds) ==
    IF txt = <<>> THEN 0 ELSE Len(cds[Head(txt)]) + SumCodeLen(Tail(txt), cds)

\* Bit j (1-based, most significant bit of each byte first) of the bytes b.
BufferBit(b, j) == (b[((j - 1) \div 8) + 1] \div (2 ^ (7 - ((j - 1) % 8)))) % 2

IsPrefix(p, q) == Len(p) <= Len(q) /\ SubSeq(q, 1, Len(p)) = p

PrefixFree(cs) ==
    /\ \A p \in cs : p # <<>> /\ \A i \in 1..Len(p) : p[i] \in {0, 1}
    /\ \A p, q \in cs : p # q => ~IsPrefix(p, q)

RECURSIVE Leaves(_)
Leaves(node) ==
    IF node = None THEN {}
    ELSE (IF node.char # NoChar THEN {<<node.char, node.freq>>} ELSE {})
             \cup Leaves(node.left) \cup Leaves(node.right)

RECURSIVE LeafCount(_)
LeafCount(node) ==
    IF node = None THEN 0
    ELSE (IF node.char # NoChar THEN 1 ELSE 0) + LeafCount(node.left) + LeafCount(node.right)

RECURSIVE InternalCount(_)
InternalCount(node) ==
    IF node = None THEN 0
    ELSE (IF node.char = NoChar THEN 1 ELSE 0)
             + InternalCount(node.left) + InternalCount(node.right)

\* Every node is a leaf without children, or has no symbol, two children and
\* the sum of their weights.
RECURSIVE WellFormed(_)
WellFormed(node) ==
    IF node.char # NoChar
    THEN node.left = None /\ node.right = None
    ELSE /\ node.left # None
         /\ node.right # None
         /\ node.freq = node.left.freq + node.right.freq
         /\ WellFormed(node.left)
         /\ WellFormed(node.right)

\* C1: on a fresh codec, decompress of the buffer compress returned gives back
\* the text compressed, for every non-empty text.
C1_RoundTrip == pc = "done" => (err = NoErr /\ decoded = text)

\* C2: after any sequence of compress calls on one codec, each with at least two
\* distinct symbols, decompress of the last buffer returns the last text.
C2_NoSharedState == (pc = "done" /\ multi) => (err = NoErr /\ decoded = text)

\* C3: for a text of n copies of one symbol, the root returned is an internal
\* node wrapping the leaf, the symbol's code is one bit long and the payload of
\* the buffer is n bits.
C3_SingleSymbol ==
    (pc = "compressed" /\ DistinctSymbols(text) = 1) =>
        /\ root.char = NoChar
        /\ Leaves(root) = {<<text[1], Len(text)>>}
        /\ InternalCount(root) = 1
        /\ Len(codes[text[1]]) = 1
        /\ ByteBits * (Len(buffer) - 1) - buffer[1] = Len(text)

\* C4: for a buffer returned by compress, with L the number of code bits, the
\* first byte is 8 - (L mod 8), in 1..8, the buffer has 2 + L div 8 bytes, its
\* last (first byte) bits are 0, and the bits after the first byte are the L
\* code bits in input order, most significant bit first.
C4_PaddingInvariant ==
    pc \in {"compressed", "done"} =>
        LET L == SumCodeLen(text, codes)
            bits == GetEncodedText(text, codes)
            total == ByteBits * Len(buffer)
        IN  /\ buffer[1] = 8 - (L % 8)
            /\ buffer[1] \in 1..8
            /\ Len(buffer) = 2 + (L \div 8)
            /\ \A b \in Range(buffer) : b \in 0..255
            /\ \A j \in (total - buffer[1] + 1)..total : BufferBit(buffer, j) = 0
            /\ total - buffer[1] - ByteBits = L
            /\ Len(bits) = L
            /\ \A j \in 1..L : BufferBit(buffer, ByteBits + j) = bits[j]

\* A buffer whose code bits fill whole bytes, so that a full byte of padding follows.
C4_Witness ==
    /\ pc = "compressed"
    /\ SumCodeLen(text, codes) = 8
    /\ buffer[1] = 8
    /\ Len(buffer) = 3

\* C5: after a compress call every code of codes and of reverse_mapping is a
\* non-empty bit string and none is a prefix of another code of the same table.
C5_PrefixFree ==
    pc \in {"compressed", "recompressed", "done"} =>
        /\ PrefixFree({codes[c] : c \in DOMAIN codes})
        /\ PrefixFree(DOMAIN reverse_mapping)

\* C6: decompress of a buffer whose header is above 8 or above the number of
\* payload bits, or whose payload ends inside a code, raises an error and
\* returns no string (stated for buffers made from texts of at least two
\* distinct symbols, whose codes are not empty).
C6_CorruptionDetected ==
    (/\ pc \in {"done", "done_tampered"}
     /\ DistinctSymbols(text) >= 2
     /\ buffer # <<>>
     /\ \/ buffer[1] > 8
        \/ buffer[1] > ByteBits * (Len(buffer) - 1)
        \/ DecodeLoop(RemovePadding(BitString(buffer)), <<>>, <<>>,
                      reverse_mapping).current_code # <<>>)
        => (err # NoErr /\ decoded = NoText)

\* C7: compress of the empty text raises EmptyInputError, returns neither a
\* buffer nor a tree, and leaves codes and reverse_mapping as they were.
C7_EmptyInputError ==
    [][(pc \in {"new", "idle"} /\ pc' \in {"compressed", "failed"} /\ text' = <<>>) =>
          (/\ err' = "EmptyInputError"
           /\ buffer' = NoBytes
           /\ root' = None
           /\ UNCHANGED codec)]_vars

\* C8: in every interleaving of the compress thread and the decompress thread,
\* the text decompress_text obtains is the text whose compress call produced
\* the bytes it decoded (stated for texts of at least two distinct symbols).
C8_NoLocking ==
    (decompressed # NoText /\ d_src # NoText /\ DistinctSymbols(d_src) >= 2) =>
        decompressed = d_src

\* The buffer compress returns for a text is the one a fresh codec returns.
C9_SameBuffer ==
    pc \in {"compressed", "recompressed"} => buffer = Compress(text, <<>>, <<>>).buffer

\* A compress call that follows a compress call of the same text on the same
\* codec returns the same buffer and leaves both tables as they were.
C9_SameInARow ==
    (pc \in {"compressed", "recompressed", "done"} /\ pc' \in {"recompressed", "failed"}) =>
        (/\ err' = NoErr
         /\ text' = text
         /\ buffer' = buffer
         /\ codes' = codes
         /\ reverse_mapping' = reverse_mapping)

\* C9: the buffer compress returns for a text is the one a fresh codec returns
\* for it, whatever calls the codec served before; and a second compress of
\* the same text in a row returns the same buffer and leaves both tables as the
\* first call left them.
C9_Determinism == []C9_SameBuffer /\ [][C9_SameInARow]_vars

\* A second call in a row on a codec that holds entries of an earlier text.
C9_Witness ==
    /\ pc = "recompressed"
    /\ DistinctSymbols(text) = 2
    /\ Cardinality(DOMAIN reverse_mapping) > 2

\* An iteration of merge_nodes replaces two nodes of least weight by a node
\* that has them as children and the sum of their weights.
C10_MergeTwoSmallest ==
    (pc = "merge" /\ merges' = merges + 1) =>
        LET before == Range(heap)
            after == Range(heap')
        IN  /\ Len(heap') = Len(heap) - 1
            /\ \E m \in after \ before :
                  /\ m.char = NoChar
                  /\ m.left \in before
                  /\ m.right \in before
                  /\ m.left # m.right
                  /\ m.freq = m.left.freq + m.right.freq
                  /\ after = (before \ {m.left, m.right}) \cup {m}
                  /\ m.left.freq <= m.right.freq
                  /\ \A x \in before \ {m.left, m.right} : m.right.freq <= x.freq

\* For k >= 2 distinct symbols the loop ends after k-1 iterations with the tree.
C10_FinalTree ==
    (pc \in {"merge", "compressed", "done"} /\ Len(heap) <= 1 /\ DistinctSymbols(text) >= 2) =>
        LET k == DistinctSymbols(text)
        IN  /\ Len(heap) = 1
            /\ merges = k - 1
            /\ pc # "merge" => root = heap[1]
            /\ LeafCount(heap[1]) = k
            /\ Leaves(heap[1]) = {<<c, Count(text, c)>> : c \in Range(text)}
            /\ InternalCount(heap[1]) = k - 1
            /\ WellFormed(heap[1])
            /\ heap[1].freq = Len(text)

\* C10: each iteration of merge_nodes replaces two nodes of least weight by a
\* node that has them as children and the sum of their weights; for k >= 2
\* distinct symbols the loop ends after k-1 iterations with one node, a tree of
\* k leaves carrying the symbols' counts and k-1 internal nodes, each with two
\* children and their weights' sum, and the root's weight is the text's length.
C10_TreeConstruction == []C10_FinalTree /\ [][C10_MergeTwoSmallest]_vars

\* A tree of four leaves built by three merges.
C10_Witness ==
    /\ pc = "compressed"
    /\ DistinctSymbols(text) = 4
    /\ merges = 3
    /\ InternalCount(root) = 3

====
